---- MODULE Spec2Model ----
(***************************************************************************)
(* Code-du-Travail bots: the mail polling / dedup loop of the              *)
(* Docker-mailserver and ProtonMail adapters (mailserver_email_bot.py,     *)
(* protonmail_email_bot.py) and the handlers of the chat adapter           *)
(* (telegram_bot.py).  One behaviour is one adapter process: Init picks    *)
(* the adapter and, for a mail adapter, the content of its inbox.          *)
(*                                                                         *)
(* Text is a sequence of one-character strings.  The IMAP/SMTP servers and *)
(* the inference library are the environment: every call into them has its *)
(* outcome chosen with \E among the outcomes the call can have.            *)
(***************************************************************************)
EXTENDS Integers, Sequences, FiniteSets, TLC

(* ------------------------------ bounds -------------------------------- *)

\* poll cycles of start_monitoring that a behaviour runs through
MaxCycles == 2
\* messages in the inbox
MaxMailbox == 2
\* chat updates (handler invocations) dispatched by the transport
MaxUpdates == 2

(* ------------------------------- text --------------------------------- *)

Upper == <<"A","B","C","D","E","F","G","H","I","J","K","L","M",
           "N","O","P","Q","R","S","T","U","V","W","X","Y","Z">>
Lowers == <<"a","b","c","d","e","f","g","h","i","j","k","l","m",
            "n","o","p","q","r","s","t","u","v","w","x","y","z">>

\* str.lower(), one character
LowerChar(c) ==
  IF \E i \in 1..Len(Upper) : Upper[i] = c
  THEN Lowers[CHOOSE i \in 1..Len(Upper) : Upper[i] = c]
  ELSE c

\* str.lower()
Lower(s) == [i \in 1..Len(s) |-> LowerChar(s[i])]

\* k in s
Contains(s, k) ==
  \E i \in 0..(Len(s) - Len(k)) : SubSeq(s, i + 1, i + Len(k)) = k

\* s.startswith(p)
StartsWith(s, p) == Len(s) >= Len(p) /\ SubSeq(s, 1, Len(p)) = p

Whitespace == {" ", "\n", "\t", "\r"}

\* str.strip(): leading and trailing whitespace removed
Strip(s) ==
  LET keep == {i \in 1..Len(s) : s[i] \notin Whitespace}
  IN  IF keep = {} THEN <<>>
      ELSE LET lo == CHOOSE i \in keep : \A j \in keep : i <= j
               hi == CHOOSE i \in keep : \A j \in keep : i >= j
           IN  SubSeq(s, lo, hi)

RECURSIVE Concat(_)
\* "".join(parts)
Concat(parts) ==
  IF parts = <<>> THEN <<>> ELSE Head(parts) \o Concat(Tail(parts))

(* ------------------------- program constants -------------------------- *)

\* len(body) < 10
MinBodyLen == 10
\* EMAIL_CHECK_INTERVAL default
check_interval == 30
\* time.sleep(60) of the monitoring loop's except branch
ErrorBackoff == 60

\* the keyword list of the auto-reply filter
AutoReplyKeywords ==
  { <<"a","u","t","o","-","r","e","p","l","y">>,
    <<"a","u","t","o","m","a","t","i","c">>,
    <<"n","o","r","e","p","l","y">>,
    <<"n","o","-","r","e","p","l","y">> }

tRe == <<"R","e",":">>
tRePrefix == <<"R","e",":"," ">>
tNone == <<"N","o","n","e">>

(* ----------------------------- messages ------------------------------- *)
(* A message is what email.message_from_bytes gives for a fetched RFC822   *)
(* text: the Message-ID, Subject and From headers and the body parts.  A   *)
(* Subject header is a sequence of fragments, RFC 2047 encoded-words or    *)
(* plain text.                                                             *)

Absent == [present |-> FALSE, text |-> <<>>]
Hdr(t) == [present |-> TRUE, text |-> t]
NoSubject == [present |-> FALSE, frags |-> <<>>]
PlainSubject(t) == [present |-> TRUE, frags |-> << [enc |-> FALSE, text |-> t] >>]
Plain(t) == [ctype |-> "text/plain", text |-> t]
Html(t) == [ctype |-> "text/html", text |-> t]

tAlice == <<"a","@","x">>
tBob == <<"b","@","x">>
bQuestion == <<"P","u","i","s","-","j","e"," ","R","T","T","?","\n">>
bNine == <<" ","1","2","3","4","5","6","7","8","9","\n","\n">>
bTen == <<" ","0","1","2","3","4","5","6","7","8","9"," ">>
bBlank == <<" ","\n"," ">>
bHtml == <<"<","p",">","x","<","/","p",">">>

Messages == <<
  \* 1: no Subject and no Message-ID header
  [msg_id |-> Absent, subject |-> NoSubject, sender |-> tAlice,
   multipart |-> FALSE, parts |-> << Plain(bQuestion) >>],
  \* 2: a question of exactly 10 characters once trimmed,
  \*    multipart/alternative with the html part first
  [msg_id |-> Hdr(<<"<","2",">">>),
   subject |-> PlainSubject(<<"Q","u","e","s","t","i","o","n">>),
   sender |-> tAlice,
   multipart |-> TRUE, parts |-> << Html(bHtml), Plain(bTen) >>],
  \* 3: upper-case NO-REPLY subject
  [msg_id |-> Hdr(<<"<","3",">">>),
   subject |-> PlainSubject(<<"N","O","-","R","E","P","L","Y">>),
   sender |-> tBob,
   multipart |-> FALSE, parts |-> << Plain(bQuestion) >>],
  \* 4: an encoded-word followed by plain text: =?utf-8?q?Info?= no-reply
  [msg_id |-> Hdr(<<"<","4",">">>),
   subject |-> [present |-> TRUE,
                frags |-> << [enc |-> TRUE, text |-> <<"I","n","f","o">>],
                             [enc |-> FALSE,
                              text |-> <<" ","n","o","-","r","e","p","l","y">>] >>],
   sender |-> tBob,
   multipart |-> FALSE, parts |-> << Plain(bQuestion) >>],
  \* 5: body of 9 characters once trimmed
  [msg_id |-> Hdr(<<"<","5",">">>), subject |-> PlainSubject(<<"Q","9">>),
   sender |-> tAlice,
   multipart |-> FALSE, parts |-> << Plain(bNine) >>],
  \* 6: multipart without a text/plain part
  [msg_id |-> Hdr(<<"<","6",">">>), subject |-> PlainSubject(<<"Q","0">>),
   sender |-> tBob,
   multipart |-> TRUE, parts |-> << Html(bBlank) >>] >>

MsgIds == 1..Len(Messages)

(* ------------------- process_email: the pure steps -------------------- *)

MailAdapters == {"mailserver", "protonmail"}
Adapters == MailAdapters \cup {"telegram"}

\* email.header.decode_header: a header without encoded-words comes back as
\* one str fragment, any other as one bytes fragment per run
decode_header(frags) ==
  IF \A i \in 1..Len(frags) : ~frags[i].enc
  THEN << [bytes |-> FALSE,
           text |-> Concat([i \in 1..Len(frags) |-> frags[i].text])] >>
  ELSE [i \in 1..Len(frags) |-> [bytes |-> TRUE, text |-> frags[i].text]]

\* str(x): itself for a str, the b'...' literal for bytes (ASCII content)
PyStr(frag) ==
  IF frag.bytes THEN <<"b", "'">> \o frag.text \o <<"'">> ELSE frag.text

\* the parse of the Subject header raises (decode_header(None))
SubjectRaises(a, m) == a = "protonmail" /\ ~m.subject.present

\* subject as process_email holds it after "Decode subject if needed"
DecodedSubject(a, m) ==
  IF a = "mailserver"
  THEN IF m.subject.present /\ Concat([i \in 1..Len(m.subject.frags) |->
                                        m.subject.frags[i].text]) # <<>>
       THEN PyStr(decode_header(m.subject.frags)[1])
       ELSE <<>>
  ELSE decode_header(m.subject.frags)[1].text

\* msg.get('Message-ID', '') / msg['Message-ID'] formatted into the f-string
MsgIdText(a, m) ==
  IF m.msg_id.present THEN m.msg_id.text
  ELSE IF a = "mailserver" THEN <<>> ELSE tNone

\* get_email_hash: the string handed to md5 (md5 taken as collision-free)
get_email_hash(a, msg_id, subject, sender) ==
  IF a = "mailserver"
  THEN msg_id \o <<"_">> \o subject \o <<"_">> \o sender
  ELSE msg_id \o subject \o sender

Fingerprint(a, id) ==
  get_email_hash(a, MsgIdText(a, Messages[id]),
                 DecodedSubject(a, Messages[id]), Messages[id].sender)

\* a membership test that never finds the fingerprint
AlreadyProcessedNever(h, processed) == FALSE

\* email_hash in self.processed_emails
AlreadyProcessed(h, processed) == h \in processed

\* the body extraction: the decoded payload of the first text/plain part of
\* a multipart message ("" without one), the decoded payload otherwise
RawBody(m) ==
  LET plain == {i \in 1..Len(m.parts) : m.parts[i].ctype = "text/plain"}
  IN  IF m.multipart
      THEN IF plain = {} THEN <<>>
           ELSE m.parts[CHOOSE i \in plain : \A j \in plain : i <= j].text
      ELSE m.parts[1].text

\* body as process_email holds it: the Docker-mailserver variant strips it
ExtractBody(a, m) == IF a = "mailserver" THEN Strip(RawBody(m)) ELSE RawBody(m)

\* the length test with <= in place of <
BodySkippedInclusive(a, body) ==
  IF a = "mailserver" THEN body = <<>> \/ Len(body) <= MinBodyLen
  ELSE Strip(body) = <<>>

\* "if not body or len(body) < 10" / "if not body.strip()"
BodySkipped(a, body) ==
  IF a = "mailserver" THEN body = <<>> \/ Len(body) < MinBodyLen
  ELSE Strip(body) = <<>>

\* the auto-reply filter on the subject; the ProtonMail variant has none
IsAutoReply(a, subject) ==
  a = "mailserver" /\ \E k \in AutoReplyKeywords : Contains(Lower(subject), k)

\* f"Re: {subject}" if not subject.startswith('Re:') else subject
ReplySubject(subject) ==
  IF StartsWith(subject, tRe) THEN subject ELSE tRePrefix \o subject

\* process_email without its early returns
TriageNeverSkips(a, id, processed) ==
  IF SubjectRaises(a, Messages[id]) THEN "raise" ELSE "generate"

\* what process_email does with a fetched and parsed message before it
\* generates: "raise", "duplicate", "short", "autoreply" or "generate"
Triage(a, id, processed) ==
  LET m == Messages[id] IN
  IF SubjectRaises(a, m) THEN "raise"
  ELSE IF AlreadyProcessed(Fingerprint(a, id), processed) THEN "duplicate"
  ELSE IF BodySkipped(a, ExtractBody(a, m)) THEN "short"
  ELSE IF IsAutoReply(a, DecodedSubject(a, m)) THEN "autoreply"
  ELSE "generate"

(* ------------------------ the generation adapter ---------------------- *)

\* what the tokenizer / model.generate / decode calls of one
\* generate_response call do
GenOutcomes ==
  {"text", "empty", "tokenize_raises", "generate_raises", "decode_raises"}

\* generate_response without its try/except: a failing step raises
generate_response_uncaught(mdl, tok, out) ==
  IF mdl = "None" \/ tok = "None"
  THEN [raised |-> FALSE, kind |-> "notloaded"]
  ELSE CASE out = "text" -> [raised |-> FALSE, kind |-> "answer"]
         [] out = "empty" -> [raised |-> FALSE, kind |-> "fallback"]
         [] OTHER -> [raised |-> TRUE, kind |-> "error"]

\* generate_response: the kind of string returned, and whether an exception
\* left the function instead
generate_response(mdl, tok, out) ==
  IF mdl = "None" \/ tok = "None"
  THEN [raised |-> FALSE, kind |-> "notloaded"]
  ELSE CASE out = "text" -> [raised |-> FALSE, kind |-> "answer"]
         [] out = "empty" -> [raised |-> FALSE, kind |-> "fallback"]
         [] OTHER -> [raised |-> FALSE, kind |-> "error"]

\* what the steps of one load_model call do: the tokenizer, the base model,
\* the LoRA adapter and, in the chat adapter, the warm-up generation
LoadOutcomes(a) ==
  {"ok", "fail_tokenizer", "fail_base", "fail_adapter"}
    \cup (IF a = "telegram" THEN {"fail_warmup"} ELSE {})

\* load_model without the "already loaded" early return
load_model_unguarded(a, mdl, tok, out, fallback_ok) ==
  LET tok2 == IF out = "fail_tokenizer" THEN tok ELSE "set"
      mdl2 == IF out \in {"ok", "fail_warmup"} THEN "lora" ELSE mdl
  IN  IF out = "ok"
      THEN [started |-> TRUE, model |-> mdl2, tokenizer |-> tok2,
            raised |-> FALSE]
      ELSE IF a = "telegram" /\ fallback_ok
      THEN [started |-> TRUE, model |-> "base", tokenizer |-> tok2,
            raised |-> FALSE]
      ELSE [started |-> TRUE, model |-> mdl2, tokenizer |-> tok2,
            raised |-> TRUE]

\* load_model: [started, model, tokenizer, raised] after the call; only the
\* chat adapter falls back to the base model
load_model(a, mdl, tok, out, fallback_ok) ==
  IF mdl # "None"
  THEN [started |-> FALSE, model |-> mdl, tokenizer |-> tok, raised |-> FALSE]
  ELSE LET tok2 == IF out = "fail_tokenizer" THEN tok ELSE "set"
           mdl2 == IF out \in {"ok", "fail_warmup"} THEN "lora" ELSE mdl
       IN  IF out = "ok"
           THEN [started |-> TRUE, model |-> mdl2, tokenizer |-> tok2,
                 raised |-> FALSE]
           ELSE IF a = "telegram" /\ fallback_ok
           THEN [started |-> TRUE, model |-> "base", tokenizer |-> tok2,
                 raised |-> FALSE]
           ELSE [started |-> TRUE, model |-> mdl2, tokenizer |-> tok2,
                 raised |-> TRUE]

(* ------------------------------- state -------------------------------- *)

VARIABLES
  adapter,           \* which program this process runs
  pc,                \* mail adapter: where start()/start_monitoring() stands
  model, tokenizer,  \* self.model, self.tokenizer
  is_loading,        \* self.is_loading
  is_running,        \* self.is_running (Docker-mailserver variant)
  mailbox,           \* the messages of the inbox
  unseen,            \* those without the \Seen flag
  processed_emails,  \* self.processed_emails
  email_ids,         \* the listing of the cycle in progress
  idx,               \* position of the for loop in email_ids
  ai_response,       \* kind of the string generate_response returned
  sleep_for,         \* argument of the time.sleep in progress
  cycle,             \* poll cycles started
  cycle_state,       \* how far check_new_emails got in this cycle
  outcome,           \* per message: how process_email ended in this cycle
  delivered,         \* per message: replies sendmail has accepted
  sent_true,         \* messages for which send_email returned True
  stored,            \* messages the bot flagged \Seen with mail.store
  gen_raised,        \* an exception left generate_response
  handlers,          \* chat adapter: the handler invocations
  load_runs,         \* load sequences started
  bad_load,          \* a load sequence started while loading or loaded
  interrupted_at,    \* where the mail loop stood when an interrupt ended it
  call,              \* a method called from outside the loops: a text
                     \* function with its input and results, or stop()
  script             \* a command-line script run: its input and progress

mailVars == << pc, is_running, mailbox, unseen, processed_emails, email_ids,
               idx, ai_response, sleep_for, cycle, cycle_state, outcome,
               delivered, sent_true, stored >>
chatVars == << handlers >>
auxVars == << interrupted_at, call, script >>
vars == << adapter, model, tokenizer, is_loading, gen_raised, load_runs,
           bad_load, mailVars, chatVars, auxVars >>

\* no text function and no script is under way
NoCall == [fn |-> "none"]
NoScript == [prog |-> "none"]

Updates == 1..MaxUpdates
IdleHandler ==
  [kind |-> "none", pc |-> "idle", waited |-> FALSE, loaded |-> FALSE,
   generated |-> FALSE, reply |-> "none"]

Mailboxes ==
  {S \in SUBSET MsgIds : Cardinality(S) >= 1 /\ Cardinality(S) <= MaxMailbox}

Init ==
  /\ adapter \in Adapters
  /\ pc = IF adapter \in MailAdapters THEN "start" ELSE "chat"
  /\ model = "None" /\ tokenizer = "None"
  /\ is_loading = FALSE /\ is_running = FALSE
  /\ IF adapter \in MailAdapters THEN mailbox \in Mailboxes ELSE mailbox = {}
  /\ unseen = mailbox
  /\ processed_emails = {}
  /\ email_ids = <<>> /\ idx = 0
  /\ ai_response = "none"
  /\ sleep_for = 0
  /\ cycle = 0 /\ cycle_state = "none"
  /\ outcome = [id \in mailbox |-> "none"]
  /\ delivered = [id \in mailbox |-> 0]
  /\ sent_true = {} /\ stored = {}
  /\ gen_raised = FALSE
  /\ handlers = [u \in Updates |-> IdleHandler]
  /\ load_runs = 0 /\ bad_load = FALSE
  /\ interrupted_at = "none"
  /\ call = NoCall /\ script = NoScript

(* --------------------------- the mail loop ---------------------------- *)

RECURSIVE SortedSeq(_)
\* messages[0].split(): the identifiers in ascending order
SortedSeq(S) ==
  IF S = {} THEN <<>>
  ELSE LET lo == CHOOSE x \in S : \A y \in S : x <= y
       IN  <<lo>> \o SortedSeq(S \ {lo})

\* a for loop without any per-message except clause
PerEmailCatchesNothing(a) == FALSE

\* the "except Exception" around each process_email call (and, in the
\* Docker-mailserver variant, inside process_email) keeps the for loop going
PerEmailCatches(a) == TRUE

\* check_new_emails without its except clause
CheckNewEmailsCatchesNothing == FALSE

\* the "except Exception" of check_new_emails catches what its body raises
CheckNewEmailsCatches == TRUE

\* the truth value send_email returns: False as soon as any SMTP step raises
send_email(sendmail_ok, quit_ok) == sendmail_ok /\ quit_ok

\* a commit that does not look at what send_email returned
CommitsAlways(sent) == TRUE

\* "if self.send_email(...)": the fingerprint is committed on True only
Commits(sent) == sent

\* a while condition that is false at the first test
LoopConditionNever(a, running) == FALSE

\* a while condition that does not read is_running
LoopConditionAlways(a, running) == TRUE

\* the while condition of start_monitoring
LoopCondition(a, running) == IF a = "mailserver" THEN running ELSE TRUE

cur == email_ids[idx]

chatUnchanged == UNCHANGED << handlers, load_runs, bad_load, auxVars >>

\* an exception reaches the except clause of check_new_emails, or leaves it
\* for the except clause of start_monitoring
CycleRaise(st) ==
  /\ pc' = "sleep"
  /\ sleep_for' = IF CheckNewEmailsCatches THEN check_interval ELSE ErrorBackoff
  /\ cycle_state' = IF CheckNewEmailsCatches THEN st ELSE "escaped"

\* process_email is over for the current message: next one, or close/logout
EndEmail(o) ==
  /\ outcome' = [outcome EXCEPT ![cur] = o]
  /\ ai_response' = "none"
  /\ idx' = idx + 1
  /\ pc' = IF idx + 1 > Len(email_ids) THEN "logout" ELSE "fetch"
  /\ UNCHANGED << sleep_for, cycle_state >>

\* an exception is raised while the current message is processed
EmailRaise(o) ==
  IF PerEmailCatches(adapter) THEN EndEmail(o)
  ELSE /\ outcome' = [outcome EXCEPT ![cur] = o]
       /\ ai_response' = "none"
       /\ idx' = idx
       /\ CycleRaise("loop_error")

\* a poll cycle begins
BeginCycle ==
  /\ pc' = "connect"
  /\ cycle' = cycle + 1
  /\ cycle_state' = "connecting"
  /\ outcome' = [id \in mailbox |-> "none"]
  /\ email_ids' = <<>> /\ idx' = 0
  /\ ai_response' = "none"
  /\ sleep_for' = 0

\* start(): load_model, then the loop (ProtonMail: after a connection test)
Start ==
  /\ adapter \in MailAdapters /\ pc = "start"
  /\ \E out \in LoadOutcomes(adapter) :
       LET r == load_model(adapter, model, tokenizer, out, FALSE) IN
       /\ model' = r.model /\ tokenizer' = r.tokenizer
       /\ is_loading' = FALSE
       /\ load_runs' = load_runs + (IF r.started THEN 1 ELSE 0)
       /\ bad_load' = (bad_load \/ (r.started /\ (model # "None" \/ is_loading)))
       /\ IF r.raised
          THEN /\ pc' = "crashed"
               /\ UNCHANGED << is_running, cycle, cycle_state, outcome,
                               email_ids, idx, ai_response, sleep_for >>
          ELSE IF adapter = "mailserver"
          THEN /\ is_running' = TRUE
               /\ IF LoopCondition(adapter, TRUE) THEN BeginCycle
                  ELSE /\ pc' = "returned"
                       /\ UNCHANGED << cycle, cycle_state, outcome, email_ids,
                                       idx, ai_response, sleep_for >>
          ELSE /\ pc' = "test_imap"
               /\ UNCHANGED << is_running, cycle, cycle_state, outcome,
                               email_ids, idx, ai_response, sleep_for >>
  /\ UNCHANGED << adapter, mailbox, unseen, processed_emails, delivered,
                  sent_true, stored, gen_raised, handlers, auxVars >>

\* ProtonMail start(): connect_imap / logout as a test, raise on failure
TestImap ==
  /\ pc = "test_imap"
  /\ \E ok \in BOOLEAN :
       IF ok THEN BeginCycle
       ELSE /\ pc' = "crashed"
            /\ UNCHANGED << cycle, cycle_state, outcome, email_ids, idx,
                            ai_response, sleep_for >>
  /\ UNCHANGED << adapter, model, tokenizer, is_loading, is_running, mailbox,
                  unseen, processed_emails, delivered, sent_true, stored,
                  gen_raised >>
  /\ chatUnchanged

\* check_new_emails: connect_imap
ConnectImap ==
  /\ pc = "connect"
  /\ \E ok \in BOOLEAN :
       IF ok THEN /\ pc' = "search" /\ cycle_state' = "connected"
                  /\ UNCHANGED sleep_for
       ELSE CycleRaise("connect_error")
  /\ UNCHANGED << adapter, model, tokenizer, is_loading, is_running, mailbox,
                  unseen, processed_emails, email_ids, idx, ai_response, cycle,
                  outcome, delivered, sent_true, stored, gen_raised >>
  /\ chatUnchanged

\* check_new_emails: mail.select and mail.search(None, 'UNSEEN')
Search ==
  /\ pc = "search"
  /\ \E r \in {"raise", "notok", "ok"} :
       CASE r = "raise" ->
              /\ CycleRaise("search_error")
              /\ UNCHANGED << email_ids, idx >>
         [] r = "notok" ->
              /\ pc' = "logout" /\ cycle_state' = "search_notok"
              /\ UNCHANGED << email_ids, idx, sleep_for >>
         [] OTHER ->
              /\ email_ids' = SortedSeq(unseen)
              /\ idx' = 1
              /\ cycle_state' = "listed"
              /\ pc' = IF unseen = {} THEN "logout" ELSE "fetch"
              /\ UNCHANGED sleep_for
  /\ UNCHANGED << adapter, model, tokenizer, is_loading, is_running, mailbox,
                  unseen, processed_emails, ai_response, cycle, outcome,
                  delivered, sent_true, stored, gen_raised >>
  /\ chatUnchanged

\* process_email: mail.fetch(email_id, '(RFC822)'), the parse and the
\* filters.  The inbox is selected read-write and the fetch is no PEEK, so
\* whether the fetched message loses its unseen state is the server's choice.
Fetch ==
  /\ pc = "fetch"
  /\ \E r \in {"ok", "nodata", "notok", "raise"}, flagged \in BOOLEAN :
       /\ (r # "ok" => ~flagged)
       /\ unseen' = IF flagged THEN unseen \ {cur} ELSE unseen
       /\ CASE r = "notok" -> EndEmail("notok")
            [] r \in {"nodata", "raise"} -> EmailRaise("error")
            [] OTHER ->
                 LET t == Triage(adapter, cur, processed_emails) IN
                 CASE t = "raise" -> EmailRaise("error")
                   [] t = "generate" ->
                        /\ pc' = "generate"
                        /\ UNCHANGED << outcome, idx, sleep_for, cycle_state,
                                        ai_response >>
                   [] OTHER -> EndEmail(t)
  /\ UNCHANGED << adapter, model, tokenizer, is_loading, is_running, mailbox,
                  processed_emails, email_ids, cycle, delivered,
                  sent_true, stored, gen_raised >>
  /\ chatUnchanged

\* process_email: ai_response = self.generate_response(body)
Generate ==
  /\ pc = "generate"
  /\ \E out \in GenOutcomes :
       LET r == generate_response(model, tokenizer, out) IN
       /\ gen_raised' = (gen_raised \/ r.raised)
       /\ IF r.raised
          THEN EmailRaise("error")
          ELSE /\ ai_response' = r.kind
               /\ pc' = "sendmail"
               /\ UNCHANGED << outcome, idx, sleep_for, cycle_state >>
  /\ UNCHANGED << adapter, model, tokenizer, is_loading, is_running, mailbox,
                  unseen, processed_emails, email_ids, cycle, delivered,
                  sent_true, stored >>
  /\ chatUnchanged

\* "if self.send_email(...)" once send_email has returned
AfterSend(sent, how) ==
  /\ sent_true' = IF sent THEN sent_true \cup {cur} ELSE sent_true
  /\ processed_emails' =
       IF Commits(sent)
       THEN processed_emails \cup {Fingerprint(adapter, cur)}
       ELSE processed_emails
  /\ IF Commits(sent) /\ adapter = "protonmail"
     THEN /\ pc' = "store"
          /\ outcome' = [outcome EXCEPT ![cur] = how]
          /\ UNCHANGED << idx, sleep_for, cycle_state, ai_response >>
     ELSE EndEmail(how)

\* send_email: the message is built, the SMTP session opened and logged in,
\* server.sendmail called
Sendmail ==
  /\ pc = "sendmail"
  /\ \E ok \in BOOLEAN :
       IF ok
       THEN /\ delivered' = [delivered EXCEPT ![cur] = @ + 1]
            /\ pc' = "quit"
            /\ UNCHANGED << outcome, idx, sleep_for, cycle_state, sent_true,
                            processed_emails, ai_response >>
       ELSE /\ AfterSend(send_email(FALSE, FALSE), "sendfail")
            /\ UNCHANGED delivered
  /\ UNCHANGED << adapter, model, tokenizer, is_loading, is_running, mailbox,
                  unseen, email_ids, cycle, stored, gen_raised >>
  /\ chatUnchanged

\* send_email: server.quit() after an accepted sendmail, then the return
Quit ==
  /\ pc = "quit"
  /\ \E ok \in BOOLEAN :
       AfterSend(send_email(TRUE, ok),
                 IF send_email(TRUE, ok) THEN "replied" ELSE "sendfail")
  /\ UNCHANGED << adapter, model, tokenizer, is_loading, is_running, mailbox,
                  unseen, email_ids, cycle, delivered, stored,
                  gen_raised >>
  /\ chatUnchanged

\* ProtonMail process_email: mail.store(email_id, '+FLAGS', '\\Seen')
Store ==
  /\ pc = "store"
  /\ \E ok \in BOOLEAN :
       IF ok
       THEN /\ unseen' = unseen \ {cur}
            /\ stored' = stored \cup {cur}
            /\ EndEmail(outcome[cur])
       ELSE /\ EmailRaise(outcome[cur])
            /\ UNCHANGED << unseen, stored >>
  /\ UNCHANGED << adapter, model, tokenizer, is_loading, is_running, mailbox,
                  processed_emails, email_ids, cycle, delivered,
                  sent_true, gen_raised >>
  /\ chatUnchanged

\* check_new_emails: mail.close() (Docker-mailserver) and mail.logout()
Logout ==
  /\ pc = "logout"
  /\ \E ok \in BOOLEAN :
       IF ok THEN /\ pc' = "sleep" /\ sleep_for' = check_interval
                  /\ UNCHANGED cycle_state
       ELSE CycleRaise(cycle_state)
  /\ UNCHANGED << adapter, model, tokenizer, is_loading, is_running, mailbox,
                  unseen, processed_emails, email_ids, idx, ai_response, cycle,
                  outcome, delivered, sent_true, stored, gen_raised >>
  /\ chatUnchanged

\* start_monitoring: time.sleep returns and the while condition is tested
Sleep ==
  /\ pc = "sleep"
  /\ cycle < MaxCycles \/ ~LoopCondition(adapter, is_running)
  /\ IF LoopCondition(adapter, is_running) THEN BeginCycle
     ELSE /\ pc' = "returned"
          /\ UNCHANGED << cycle, cycle_state, outcome, email_ids, idx,
                          ai_response, sleep_for >>
  /\ UNCHANGED << adapter, model, tokenizer, is_loading, is_running, mailbox,
                  unseen, processed_emails, delivered, sent_true, stored,
                  gen_raised >>
  /\ chatUnchanged

MailNext ==
  \/ Start \/ TestImap \/ ConnectImap \/ Search \/ Fetch \/ Generate
  \/ Sendmail \/ Quit \/ Store \/ Logout \/ Sleep

(* -------------------------- the chat adapter -------------------------- *)
(* A handler invocation is a coroutine: it runs from one await to the next  *)
(* without interruption, and other invocations may run while it is          *)
(* suspended in an await.  load_model and generate_response contain no      *)
(* await: each runs to its end within one step of the handler calling it,   *)
(* so is_loading, set on entry of load_model and cleared in its finally,    *)
(* is False again when the step ends.                                       *)

mailUnchanged == UNCHANGED << mailVars, auxVars >>

\* the call "await bot_instance.load_model()" of a handler
CallLoadModel(out, fallback_ok) ==
  LET r == load_model(adapter, model, tokenizer, out, fallback_ok) IN
  /\ model' = r.model /\ tokenizer' = r.tokenizer
  /\ is_loading' = FALSE
  /\ load_runs' = load_runs + (IF r.started THEN 1 ELSE 0)
  /\ bad_load' = (bad_load \/ (r.started /\ (model # "None" \/ is_loading)))

\* handle_message without the "model is None" branch
TextEntryNoLoad(loading, mdl) == IF loading THEN "A_wait" ELSE "A_typing"

\* handle_message up to its first await: the is_loading and model tests
TextEntry(loading, mdl) ==
  IF loading THEN "A_wait"
  ELSE IF mdl = "None" THEN "A_notice"
  ELSE "A_typing"

\* start after the welcome message: "if model is None and not is_loading"
StartLoads(loading, mdl) == mdl = "None" /\ ~loading

\* the transport dispatches an update to handle_message or to start
Dispatch(u) ==
  /\ adapter = "telegram" /\ handlers[u].pc = "idle"
  /\ \A v \in Updates : v < u => handlers[v].pc # "idle"
  /\ \E kind \in {"text", "start"} :
       handlers' = [handlers EXCEPT ![u] =
         [@ EXCEPT !.kind = kind,
                   !.pc = IF kind = "text" THEN TextEntry(is_loading, model)
                          ELSE "B_welcome",
                   !.waited = (kind = "text" /\ is_loading)]]
  /\ UNCHANGED << adapter, model, tokenizer, is_loading, gen_raised, load_runs,
                  bad_load >>
  /\ mailUnchanged

\* where a handler goes when an await returns (ok) or raises, for the awaits
\* that no load and no generation follows
AfterAwait(at, ok) ==
  CASE at = "A_wait" -> IF ok THEN "done" ELSE "failed"
    [] at = "A_loaded" -> IF ok THEN "A_typing" ELSE "failed"
    [] at = "A_loaderr" -> IF ok THEN "done" ELSE "failed"
    [] at = "A_reply" -> IF ok THEN "done" ELSE "A_apology"
    [] at = "A_apology" -> IF ok THEN "done" ELSE "failed"
    [] at = "B_ready" -> IF ok THEN "done" ELSE "failed"
    [] OTHER -> at

\* a reply_text await returns or raises
ReplyReturns(u) ==
  /\ handlers[u].pc \in {"A_wait", "A_loaded", "A_loaderr", "A_reply",
                         "A_apology", "B_ready"}
  /\ \E ok \in BOOLEAN :
       handlers' = [handlers EXCEPT ![u].pc = AfterAwait(handlers[u].pc, ok)]
  /\ UNCHANGED << adapter, model, tokenizer, is_loading, gen_raised, load_runs,
                  bad_load >>
  /\ mailUnchanged

\* handle_message: the loading notice is sent, then load_model in try/except
TextLoad(u) ==
  /\ handlers[u].pc = "A_notice"
  /\ \E ok \in BOOLEAN, out \in LoadOutcomes(adapter), fb \in BOOLEAN :
       IF ok
       THEN /\ CallLoadModel(out, fb)
            /\ handlers' = [handlers EXCEPT ![u] =
                 [@ EXCEPT !.loaded = TRUE,
                           !.pc = IF load_model(adapter, model, tokenizer, out,
                                                fb).raised
                                  THEN "A_loaderr" ELSE "A_loaded"]]
       ELSE /\ handlers' = [handlers EXCEPT ![u].pc = "failed"]
            /\ UNCHANGED << model, tokenizer, is_loading, load_runs, bad_load >>
  /\ UNCHANGED << adapter, gen_raised >>
  /\ mailUnchanged

\* handle_message: the typing action is sent, then generate_response
TextGenerate(u) ==
  /\ handlers[u].pc = "A_typing"
  /\ \E ok \in BOOLEAN, out \in GenOutcomes :
       LET r == generate_response(model, tokenizer, out) IN
       IF ok
       THEN /\ gen_raised' = (gen_raised \/ r.raised)
            /\ handlers' = [handlers EXCEPT ![u] =
                 [@ EXCEPT !.generated = TRUE,
                           !.reply = IF r.raised THEN "none" ELSE r.kind,
                           !.pc = IF r.raised THEN "failed" ELSE "A_reply"]]
       ELSE /\ handlers' = [handlers EXCEPT ![u].pc = "failed"]
            /\ UNCHANGED gen_raised
  /\ UNCHANGED << adapter, model, tokenizer, is_loading, load_runs, bad_load >>
  /\ mailUnchanged

\* start: the welcome message is sent, then the lazy-load test
StartWelcome(u) ==
  /\ handlers[u].pc = "B_welcome"
  /\ \E ok \in BOOLEAN :
       handlers' = [handlers EXCEPT ![u].pc =
         IF ~ok THEN "failed"
         ELSE IF StartLoads(is_loading, model) THEN "B_notice" ELSE "done"]
  /\ UNCHANGED << adapter, model, tokenizer, is_loading, gen_raised, load_runs,
                  bad_load >>
  /\ mailUnchanged

\* start: the loading notice is sent, then load_model (no try/except)
StartLoad(u) ==
  /\ handlers[u].pc = "B_notice"
  /\ \E ok \in BOOLEAN, out \in LoadOutcomes(adapter), fb \in BOOLEAN :
       IF ok
       THEN /\ CallLoadModel(out, fb)
            /\ handlers' = [handlers EXCEPT ![u] =
                 [@ EXCEPT !.loaded = TRUE,
                           !.pc = IF load_model(adapter, model, tokenizer, out,
                                                fb).raised
                                  THEN "failed" ELSE "B_ready"]]
       ELSE /\ handlers' = [handlers EXCEPT ![u].pc = "failed"]
            /\ UNCHANGED << model, tokenizer, is_loading, load_runs, bad_load >>
  /\ UNCHANGED << adapter, gen_raised >>
  /\ mailUnchanged

ChatNext ==
  \E u \in Updates :
    \/ Dispatch(u) \/ ReplyReturns(u) \/ TextLoad(u) \/ TextGenerate(u)
    \/ StartWelcome(u) \/ StartLoad(u)

Next == MailNext \/ ChatNext

Spec == Init /\ [][Next]_vars

(* ------------------------------ properties ---------------------------- *)

\* the messages of the listing of the cycle in progress
Listed == {email_ids[i] : i \in 1..Len(email_ids)}

\* a message is being answered: generation or the SMTP session is under way
Answering == adapter \in MailAdapters /\ pc \in {"generate", "sendmail", "quit"}

\* the Subject header as the sender wrote it, all fragments decoded
FullSubject(m) ==
  Concat([i \in 1..Len(m.subject.frags) |-> m.subject.frags[i].text])

\* the subject contains one of the auto-reply keywords, in any letter case
HasAutoReplyKeyword(m) ==
  \E k \in AutoReplyKeywords : Contains(Lower(FullSubject(m)), k)

\* the messages whose subject contains an auto-reply keyword
AutoReplySubjects == {id \in MsgIds : HasAutoReplyKeyword(Messages[id])}

\* length of the extracted body once trimmed, per message
TrimmedLen == [id \in MsgIds |-> Len(Strip(RawBody(Messages[id])))]

\* the fingerprint each mail adapter computes for each message
HashOf == [a \in MailAdapters |-> [id \in MsgIds |-> Fingerprint(a, id)]]

\* C1: no message is answered twice: the bot never starts answering a
\* message for which the SMTP server has already accepted a reply, also when
\* closing the SMTP session failed after the reply was accepted.
C1_NeverAnsweredTwice ==
  /\ Answering /\ pc # "quit" => delivered[cur] = 0
  /\ \A id \in mailbox : delivered[id] <= 1

\* C2: a fingerprint is in processed_emails only for a message for which
\* send_email returned True, and the ProtonMail variant flags a message \Seen
\* only for such a message, whose fingerprint is then already committed.
C2_CommitOnlyAfterSend ==
  /\ \A h \in processed_emails :
       \E id \in sent_true : HashOf[adapter][id] = h
  /\ stored \subseteq sent_true
  /\ \A id \in stored : HashOf[adapter][id] \in processed_emails

C2_Witness ==
  /\ adapter = "protonmail"
  /\ \E id \in stored : HashOf[adapter][id] \in processed_emails
  /\ \E id \in mailbox : outcome[id] = "sendfail"

\* C3: when sending the answer failed, the fingerprint of the message is not
\* recorded and the sender has received no reply.
C3_FailedSendLeavesNoReply ==
  \A id \in mailbox :
    outcome[id] = "sendfail" =>
      /\ HashOf[adapter][id] \notin processed_emails
      /\ delivered[id] = 0

\* C4: for a message whose fingerprint is already in processed_emails the
\* bot makes no generation call and no send call.
C4_NoWorkForProcessed ==
  Answering => HashOf[adapter][cur] \notin processed_emails

C4_Witness ==
  \E id \in mailbox :
    /\ outcome[id] = "duplicate"
    /\ HashOf[adapter][id] \in processed_emails
    /\ delivered[id] = 1

\* C5: an exception raised while one message is processed never aborts the
\* poll cycle: the for loop goes through every message of the listing, and
\* the exception reaches neither check_new_emails' except clause nor
\* start_monitoring.
C5_BadEmailNeverAbortsCycle ==
  /\ cycle_state \notin {"loop_error", "escaped"}
  /\ (adapter \in MailAdapters /\ pc \in {"logout", "sleep"}
        /\ cycle_state = "listed") =>
       /\ idx = Len(email_ids) + 1
       /\ \A id \in Listed : outcome[id] # "none"

C5_Witness ==
  /\ pc = "sleep" /\ cycle_state = "listed"
  /\ \E i, j \in 1..Len(email_ids) :
       /\ i < j
       /\ outcome[email_ids[i]] = "error"
       /\ outcome[email_ids[j]] = "replied"

\* C6: a failed IMAP connection aborts only its poll cycle: nothing is
\* fetched, generated or sent in that cycle, the exception does not leave
\* check_new_emails, the loop sleeps the normal interval, the process does not
\* terminate, and the step after the sleep is the start of a new cycle.
C6_ConnectFailureAbortsOnlyCycle ==
  /\ [](cycle_state = "connect_error" =>
          /\ pc = "sleep" /\ sleep_for = check_interval
          /\ email_ids = <<>>
          /\ \A id \in mailbox : outcome[id] = "none")
  /\ [](cycle_state # "escaped")
  /\ [][cycle_state = "connect_error" /\ pc' # pc =>
          /\ pc' = "connect" /\ cycle' = cycle + 1
          /\ delivered' = delivered
          /\ processed_emails' = processed_emails]_vars

C6_Witness ==
  /\ cycle_state = "connect_error" /\ pc = "sleep"
  /\ cycle = 2 /\ sleep_for = check_interval
  /\ \E id \in mailbox : delivered[id] = 1

\* C7: in every polling variant, a message whose subject contains
\* "no-reply", "auto-reply", "automatic" or "noreply" (any letter case) is
\* never answered: no generation and no send happens for it.
C7_AutoReplyNeverAnswered ==
  /\ Answering => cur \notin AutoReplySubjects
  /\ \A id \in mailbox : id \in AutoReplySubjects => delivered[id] = 0

\* C8: in the Docker-mailserver variant a message whose trimmed body has
\* fewer than 10 characters is never answered, and one whose trimmed body has
\* exactly 10 characters is not skipped as too short.
C8_BodyLengthBoundary ==
  adapter = "mailserver" =>
    /\ Answering => TrimmedLen[cur] >= MinBodyLen
    /\ \A id \in mailbox :
         /\ TrimmedLen[id] < MinBodyLen => delivered[id] = 0
         /\ TrimmedLen[id] = MinBodyLen => outcome[id] # "short"

C8_Witness ==
  /\ adapter = "mailserver" /\ pc = "sleep"
  /\ \E id \in mailbox : TrimmedLen[id] = MinBodyLen /\ outcome[id] = "replied"
  /\ \E id \in mailbox : TrimmedLen[id] = MinBodyLen - 1 /\ outcome[id] = "short"

\* C9: generate_response never raises: with the model not loaded and with
\* any failure of tokenizing, generating or decoding it returns a string,
\* and the adapter goes on to send that string.
C9_GenerateNeverRaises ==
  /\ ~gen_raised
  /\ adapter \in MailAdapters /\ pc \in {"sendmail", "quit"} =>
       ai_response \in {"answer", "fallback", "error", "notloaded"}
  /\ \A u \in Updates :
       handlers[u].generated =>
         /\ handlers[u].reply \in {"answer", "fallback", "error", "notloaded"}
         /\ handlers[u].pc \in {"A_reply", "A_apology", "done", "failed"}

C9_Witness ==
  \E u \in Updates :
    /\ handlers[u].generated /\ handlers[u].reply = "error"
    /\ handlers[u].pc = "done"

\* C10: the load sequence of the chat adapter is not re-entrant and does not
\* run again once the model is set: under every interleaving of handlers, no
\* load sequence starts while the model is set or a load is in progress, and
\* a handler that saw is_loading neither loads nor generates.
C10_LoadNotReentrant ==
  /\ ~bad_load
  /\ ~is_loading
  /\ \A u \in Updates :
       handlers[u].waited => ~handlers[u].loaded /\ ~handlers[u].generated

C10_Witness ==
  /\ adapter = "telegram" /\ model # "None" /\ load_runs = 1
  /\ \E u, v \in Updates :
       u # v /\ handlers[u].loaded /\ handlers[v].loaded

(* ------------------- the text functions of the mail bots -------------- *)
(* _clean_response and the reply body of format_email_response, each      *)
(* applied to inputs drawn from bounded sets.                              *)

\* longest string handed to _clean_response
MaxText == 6
\* longest answer (in tokens) handed to format_email_response
MaxAnswer == 2
\* longest text the tokenizer decodes in a generate_response call
MaxDecoded == 4
\* longest header value handed to get_email_hash
MaxField == 1

\* the sequences over alphabet A of length at most n
SeqsUpTo(A, n) == UNION {[1..k -> A] : k \in 0..n}

tInstOpen == <<"[","I","N","S","T","]">>
tInstClose == <<"[","/","I","N","S","T","]">>
tSOpen == <<"<","s",">">>
tSClose == <<"<","/","s",">">>

RECURSIVE RemoveLiteral(_, _)
\* re.sub(p, '', s) for a literal p: leftmost non-overlapping occurrences
RemoveLiteral(s, p) ==
  IF s = <<>> THEN <<>>
  ELSE IF StartsWith(s, p)
       THEN RemoveLiteral(SubSeq(s, Len(p) + 1, Len(s)), p)
       ELSE <<Head(s)>> \o RemoveLiteral(Tail(s), p)

RECURSIVE RemoveEither(_, _, _)
\* re.sub(r'p|q', '', s): one pass, p tried before q at each position
RemoveEither(s, p, q) ==
  IF s = <<>> THEN <<>>
  ELSE IF StartsWith(s, p)
       THEN RemoveEither(SubSeq(s, Len(p) + 1, Len(s)), p, q)
       ELSE IF StartsWith(s, q)
       THEN RemoveEither(SubSeq(s, Len(q) + 1, Len(s)), p, q)
       ELSE <<Head(s)>> \o RemoveEither(Tail(s), p, q)

RECURSIVE RemoveInstBlocks(_)
\* re.sub(r'\[INST\].*?\[/INST\]', '', s, flags=re.DOTALL)
RemoveInstBlocks(s) ==
  LET ends == {j \in (Len(tInstOpen) + 1)..(Len(s) - Len(tInstClose) + 1) :
                 SubSeq(s, j, j + Len(tInstClose) - 1) = tInstClose}
  IN  IF s = <<>> THEN <<>>
      ELSE IF StartsWith(s, tInstOpen) /\ ends # {}
           THEN LET j == CHOOSE x \in ends : \A y \in ends : x <= y
                IN  RemoveInstBlocks(SubSeq(s, j + Len(tInstClose), Len(s)))
           ELSE <<Head(s)>> \o RemoveInstBlocks(Tail(s))

RECURSIVE CollapseBlankLines(_)
\* re.sub(r'\n\s*\n\s*\n', '\n\n', s): a newline followed by a whitespace run
\* holding two more newlines is replaced, up to the last newline of the run
CollapseBlankLines(s) ==
  IF s = <<>> THEN <<>>
  ELSE IF Head(s) # "\n" THEN <<Head(s)>> \o CollapseBlankLines(Tail(s))
  ELSE LET runs == {k \in 1..Len(s) : \A i \in 2..k : s[i] \in Whitespace}
           last == CHOOSE k \in runs : \A j \in runs : j <= k
           nl == {i \in 2..last : s[i] = "\n"}
       IN  IF Cardinality(nl) >= 2
           THEN <<"\n", "\n">> \o
                CollapseBlankLines(SubSeq(s,
                  (CHOOSE i \in nl : \A j \in nl : j <= i) + 1, Len(s)))
           ELSE <<"\n">> \o CollapseBlankLines(Tail(s))

\* _clean_response of the Docker-mailserver (v = "mailserver") and of the
\* ProtonMail variant, which also appends a full stop
clean_response(v, response) ==
  LET noinst == RemoveInstBlocks(response)
      nomark == IF v = "mailserver"
                THEN RemoveLiteral(RemoveLiteral(noinst, tSOpen), tSClose)
                ELSE RemoveEither(noinst, tSOpen, tSClose)
      stripped == Strip(CollapseBlankLines(nomark))
  IN  IF v = "mailserver" THEN stripped
      ELSE IF stripped = <<>> \/ stripped[Len(stripped)] # "."
           THEN stripped \o <<".">> ELSE stripped

\* the characters the strings handed to _clean_response are made of
CleanAlphabet == {"<", "/", "s", ">", "\n"}

\* the fallback sentence of generate_response, which ends with "?"
tFallback == <<"J", "e", "?">>

\* generate_response of a mail variant with the model loaded, from the text
\* tokenizer.decode returned: strip, the fallback for an empty text, then
\* _clean_response
generate_response_text(v, decoded) ==
  LET response == Strip(decoded)
  IN  clean_response(v, IF response = <<>> THEN tFallback ELSE response)

\* the reply bodies are sequences of tokens: a token is a fixed piece of the
\* template, or a piece of the disclaimer, the signature or the answer
ConfiguredDisclaimer == <<"disclaimer-1", "disclaimer-2">>
ConfiguredSignature == <<"signature">>
GenericDisclaimer == <<"generic-disclaimer">>
GenericSignature == <<"generic-signature">>

FormatVariants == {"mailserver", "protonmail", "generic"}

\* self.disclaimer / self.signature; email_bot.py has them in the template
DisclaimerOf(v) ==
  IF v = "generic" THEN GenericDisclaimer ELSE ConfiguredDisclaimer
SignatureOf(v) ==
  IF v = "generic" THEN GenericSignature ELSE ConfiguredSignature

\* datetime.now().strftime('%d/%m/%Y à %H:%M') at the time of a call
Clock == {"06/11/2026 09:00", "06/11/2026 09:01"}

\* format_email_response, called when the clock reads now
format_email_response(v, answer, now) ==
  CASE v = "mailserver" ->
         <<"greeting", "introduction", "separator">> \o answer
           \o <<"rule", "warning-label">> \o DisclaimerOf(v)
           \o <<"blank", "regards">> \o SignatureOf(v)
    [] v = "protonmail" ->
         <<"introduction">> \o answer
           \o <<"rule", "disclaimer-title">> \o DisclaimerOf(v)
           \o <<"blank", "advice", "regards">> \o SignatureOf(v)
           \o <<"rule", "automatic-notice", "generated-on", now>>
    [] OTHER ->
         <<"introduction", "blank">> \o answer
           \o <<"rule">> \o DisclaimerOf(v)
           \o <<"blank", "regards">> \o SignatureOf(v)

\* the answers generate_response can hand over: text that may quote the
\* disclaimer or the signature, the fallback string, the error string
AnswerTokens == {"text", "disclaimer-1", "disclaimer-2", "signature"}
Answers ==
  SeqsUpTo(AnswerTokens, MaxAnswer) \cup {<<"fallback">>, <<"error">>}

\* the Message-ID, Subject and From values handed to get_email_hash
FieldTexts == SeqsUpTo({"a", "_"}, MaxField)
HashFields == FieldTexts \X FieldTexts \X FieldTexts

\* the program variables of an object that is not polling or serving
Quiet(pcv) ==
  /\ pc = pcv
  /\ model = "None" /\ tokenizer = "None"
  /\ is_loading = FALSE /\ is_running = FALSE
  /\ mailbox = {} /\ unseen = {} /\ processed_emails = {}
  /\ email_ids = <<>> /\ idx = 0 /\ ai_response = "none"
  /\ sleep_for = 0 /\ cycle = 0 /\ cycle_state = "none"
  /\ outcome = <<>> /\ delivered = <<>>
  /\ sent_true = {} /\ stored = {}
  /\ gen_raised = FALSE
  /\ handlers = [u \in Updates |-> IdleHandler]
  /\ load_runs = 0 /\ bad_load = FALSE
  /\ interrupted_at = "none"

InitText ==
  /\ adapter \in FormatVariants
  /\ Quiet("text")
  /\ script = NoScript
  /\ \/ /\ adapter \in MailAdapters
        /\ call \in {[fn |-> "clean", arg |-> r, n |-> 0, once |-> <<>>,
                      twice |-> <<>>] : r \in SeqsUpTo(CleanAlphabet, MaxText)}
     \/ call \in {[fn |-> "format", arg |-> r, n |-> 0, body |-> <<>>,
                     again |-> <<>>] : r \in Answers}
     \/ /\ adapter \in MailAdapters
        /\ call \in {[fn |-> "respond", arg |-> r, n |-> 0, result |-> <<>>] :
                       r \in SeqsUpTo(CleanAlphabet, MaxDecoded)}
     \/ /\ adapter \in MailAdapters
        /\ call \in {[fn |-> "hash", one |-> x, other |-> y, n |-> 0,
                       hash_one |-> <<>>, hash_other |-> <<>>] :
                       x \in HashFields, y \in HashFields}

textUnchanged ==
  UNCHANGED << adapter, model, tokenizer, is_loading, gen_raised, load_runs,
               bad_load, mailVars, chatVars, interrupted_at, script >>

\* _clean_response is applied to the string, then to its own result
CleanResponse ==
  /\ call.fn = "clean" /\ call.n < 2
  /\ call' = IF call.n = 0
             THEN [call EXCEPT !.n = 1,
                               !.once = clean_response(adapter, call.arg)]
             ELSE [call EXCEPT !.n = 2,
                               !.twice = clean_response(adapter, call.once)]
  /\ textUnchanged

\* format_email_response is applied to the answer, then once more to the
\* same answer, each call at some time of the clock
FormatEmailResponse ==
  /\ call.fn = "format" /\ call.n < 2
  /\ \E now \in Clock :
       call' = IF call.n = 0
               THEN [call EXCEPT !.n = 1,
                       !.body = format_email_response(adapter, call.arg, now)]
               ELSE [call EXCEPT !.n = 2,
                       !.again = format_email_response(adapter, call.arg, now)]
  /\ textUnchanged

\* generate_response returns for the decoded text
GenerateResponse ==
  /\ call.fn = "respond" /\ call.n = 0
  /\ call' = [call EXCEPT !.n = 1,
                          !.result = generate_response_text(adapter, call.arg)]
  /\ textUnchanged

\* get_email_hash is applied to the fields of two emails
GetEmailHash ==
  /\ call.fn = "hash" /\ call.n = 0
  /\ call' = [call EXCEPT
       !.n = 1,
       !.hash_one = get_email_hash(adapter, call.one[1], call.one[2],
                                   call.one[3]),
       !.hash_other = get_email_hash(adapter, call.other[1], call.other[2],
                                     call.other[3])]
  /\ textUnchanged

TextNext ==
  CleanResponse \/ FormatEmailResponse \/ GenerateResponse \/ GetEmailHash

SpecText == InitText /\ [][TextNext]_vars

\* occurrences of sub in s
Occurrences(sub, s) ==
  Cardinality({i \in 1..(Len(s) - Len(sub) + 1) :
                 SubSeq(s, i, i + Len(sub) - 1) = sub})

\* s.endswith(sub)
EndsWith(s, sub) ==
  Len(s) >= Len(sub) /\ SubSeq(s, Len(s) - Len(sub) + 1, Len(s)) = sub

\* C11: for every answer, the formatted reply body contains the configured
\* disclaimer exactly once and the signature exactly once, and the body ends
\* with the signature.
C11_DisclaimerAndSignatureOnce ==
  (call.fn = "format" /\ call.n >= 1) =>
    /\ Occurrences(DisclaimerOf(adapter), call.body) = 1
    /\ Occurrences(SignatureOf(adapter), call.body) = 1
    /\ EndsWith(call.body, SignatureOf(adapter))

\* C12: _clean_response is idempotent: cleaning a cleaned string gives the
\* same string.
C12_CleanIdempotent ==
  (call.fn = "clean" /\ call.n = 2) => call.twice = call.once

\* C22: the response formatter is a pure function: two calls with the same
\* answer and the same configuration return the same body, whatever the
\* time of each call.
C22_FormatterIsPure ==
  (call.fn = "format" /\ call.n = 2) => call.again = call.body

\* C21: with the model loaded, generate_response never returns the empty
\* string: when the decoded text is empty once the markers are removed and
\* it is trimmed, the fallback sentence is returned.
C21_AnswerNeverEmpty ==
  (call.fn = "respond" /\ call.n = 1) =>
    /\ call.result # <<>>
    /\ (Strip(CollapseBlankLines(RemoveEither(RemoveInstBlocks(call.arg),
                                              tSOpen, tSClose))) = <<>>
          => call.result = tFallback)

\* C28: the string handed to the hash is injective on its fields: two
\* emails that differ in message-id, subject or sender never give the same
\* string.
C28_FingerprintInjective ==
  (call.fn = "hash" /\ call.n = 1 /\ call.one # call.other) =>
    call.hash_one # call.hash_other

(* --------------------------- the reply subject ------------------------- *)

\* the Subject of the reply to message id: response_subject of process_email
\* (Docker-mailserver), msg['Subject'] of send_email (ProtonMail)
SentSubject(a, id) == ReplySubject(DecodedSubject(a, Messages[id]))

\* C13: the subject of the reply being sent is the incoming subject with
\* "Re: " in front, or the incoming subject itself when it already starts
\* with the reply prefix, and composing the reply subject again changes
\* nothing.
C13_ReplySubject ==
  (Answering /\ pc \in {"sendmail", "quit"}) =>
    /\ SentSubject(adapter, cur) = ReplySubject(FullSubject(Messages[cur]))
    /\ ReplySubject(SentSubject(adapter, cur)) = SentSubject(adapter, cur)

(* ----------------------- the command-line scripts ---------------------- *)
(* run.py, health_check.py and monitor.py: one behaviour is one run of one *)
(* script, from its arguments and environment to its exit status.          *)

EnvNames == {"TELEGRAM_BOT_TOKEN", "EMAIL_ADDRESS", "EMAIL_PASSWORD",
             "EMAIL_DOMAIN"}
Modes == {"telegram", "email", "both"}

\* the validation at the end of MailserverEmailBot.__init__
ConfigValidNoDomain(env) ==
  "EMAIL_ADDRESS" \in env /\ "EMAIL_PASSWORD" \in env

ConfigValid(env) ==
  /\ "EMAIL_ADDRESS" \in env /\ "EMAIL_PASSWORD" \in env
  /\ "EMAIL_DOMAIN" \in env

\* the checks of health_check.main and the alerts of SimpleMonitor.check_alerts
HealthChecks == {"process", "disk", "memory", "gpu", "config", "log"}
AlertKinds == {"bot", "memory", "disk", "cpu", "gpu", "log"}

\* exit status of the interpreter: sys.exit(n), or 1 for an uncaught exception
ExitStatus(healthy) == IF healthy THEN 0 ELSE 1

RunScripts ==
  {[prog |-> "run", mode |-> m, check |-> c, env |-> e, deps |-> d,
    pc |-> "setup", exit |-> -1, why |-> "none",
    loads |-> 0, imap |-> 0, smtp |-> 0] :
     m \in Modes, c \in BOOLEAN, e \in SUBSET EnvNames, d \in BOOLEAN}

HealthScripts ==
  {[prog |-> "health", json |-> j, failing |-> f, writable |-> w,
    pc |-> "checks", exit |-> -1, all_ok |-> TRUE] :
     j \in BOOLEAN, f \in SUBSET HealthChecks, w \in BOOLEAN}

MonitorScripts ==
  {[prog |-> "monitor", json |-> j, continuous |-> c, alerts |-> a,
    pc |-> "main", exit |-> -1] :
     j \in BOOLEAN, c \in BOOLEAN, a \in SUBSET AlertKinds}

InitScripts ==
  /\ adapter = "none"
  /\ Quiet("script")
  /\ call = NoCall
  /\ script \in RunScripts \cup HealthScripts \cup MonitorScripts

scriptUnchanged ==
  UNCHANGED << adapter, model, tokenizer, is_loading, gen_raised, load_runs,
               bad_load, mailVars, chatVars, interrupted_at, call >>

\* the script ends with status n
Exits(n, why) == [script EXCEPT !.pc = "exited", !.exit = n, !.why = why]

\* run.py main: setup_environment (and setup_directories)
SetupEnvironment ==
  /\ script.prog = "run" /\ script.pc = "setup"
  /\ script' = IF "TELEGRAM_BOT_TOKEN" \in script.env
               THEN [script EXCEPT !.pc = "deps"]
               ELSE Exits(1, "token")
  /\ scriptUnchanged

\* run.py main: check_dependencies and the --check return
CheckDependencies ==
  /\ script.prog = "run" /\ script.pc = "deps"
  /\ script' = IF ~script.deps THEN Exits(1, "deps")
               ELSE IF script.check THEN Exits(0, "check")
               ELSE [script EXCEPT !.pc = "run"]
  /\ scriptUnchanged

\* run.py main, --mode telegram: run_telegram_bot serves until stopped
RunTelegramBot ==
  /\ script.prog = "run" /\ script.pc = "run" /\ script.mode = "telegram"
  /\ script' = [script EXCEPT !.pc = "serving"]
  /\ scriptUnchanged

\* run.py main, --mode email: run_email_bot, mailserver_email_bot.main,
\* MailserverEmailBot(); the ValueError of the validation is re-raised up to
\* main's "except Exception", which ends with sys.exit(1)
RunEmailBot ==
  /\ script.prog = "run" /\ script.pc = "run" /\ script.mode = "email"
  /\ script' = IF ConfigValid(script.env)
               THEN [script EXCEPT !.pc = "loading"]
               ELSE Exits(1, "config")
  /\ scriptUnchanged

\* run.py main, --mode both: run_both_bots; the mail thread that raises
\* stops, the main thread sees it, joins and returns
RunBothBots ==
  /\ script.prog = "run" /\ script.pc = "run" /\ script.mode = "both"
  /\ script' = IF ConfigValid(script.env)
               THEN [script EXCEPT !.pc = "loading"]
               ELSE Exits(0, "thread")
  /\ scriptUnchanged

\* MailserverEmailBot.start: load_model, which raises when the load fails
BotLoadModel ==
  /\ script.prog = "run" /\ script.pc = "loading"
  /\ \E ok \in BOOLEAN :
       script' =
         IF ok THEN [script EXCEPT !.pc = "monitoring", !.loads = @ + 1]
         ELSE [Exits(IF script.mode = "email" THEN 1 ELSE 0, "load")
                 EXCEPT !.loads = @ + 1]
  /\ scriptUnchanged

\* MailserverEmailBot.start_monitoring: the first connect_imap
BotConnect ==
  /\ script.prog = "run" /\ script.pc = "monitoring"
  /\ script' = [script EXCEPT !.pc = "polling", !.imap = @ + 1]
  /\ scriptUnchanged

\* health_check.main: the loop over the checks
HealthRunChecks ==
  /\ script.prog = "health" /\ script.pc = "checks"
  /\ script' = [script EXCEPT !.pc = "report",
                              !.all_ok = (script.failing = {})]
  /\ scriptUnchanged

\* health_check.main: the --json report, then sys.exit(0 if all_ok else 1);
\* an exception writing the report is not caught
HealthReport ==
  /\ script.prog = "health" /\ script.pc = "report"
  /\ script' = IF script.json /\ ~script.writable
               THEN [script EXCEPT !.pc = "exited", !.exit = 1]
               ELSE [script EXCEPT !.pc = "exited",
                                   !.exit = ExitStatus(script.all_ok)]
  /\ scriptUnchanged

\* monitor.main: --json prints and returns, --continuous loops, otherwise
\* exit(0 if healthy else 1)
MonitorMain ==
  /\ script.prog = "monitor" /\ script.pc = "main"
  /\ script' = IF script.json
               THEN [script EXCEPT !.pc = "exited", !.exit = 0]
               ELSE IF script.continuous
               THEN [script EXCEPT !.pc = "looping"]
               ELSE [script EXCEPT !.pc = "exited",
                                   !.exit = ExitStatus(script.alerts = {})]
  /\ scriptUnchanged

ScriptsNext ==
  \/ SetupEnvironment \/ CheckDependencies \/ RunTelegramBot \/ RunEmailBot
  \/ RunBothBots \/ BotLoadModel \/ BotConnect
  \/ HealthRunChecks \/ HealthReport \/ MonitorMain

SpecScripts == InitScripts /\ [][ScriptsNext]_vars

\* run.py is started with --mode email (and without --check), every setting
\* but EMAIL_DOMAIN is set, the dependencies are installed
EmailModeWithoutDomain ==
  /\ script.prog = "run" /\ script.mode = "email" /\ ~script.check
  /\ script.deps
  /\ script.env = EnvNames \ {"EMAIL_DOMAIN"}

\* C14: started with --mode email while EMAIL_DOMAIN is unset, the runner
\* goes no further than the validation: it never loads the model and never
\* connects to IMAP or SMTP, and when it has exited its status is not 0.
C14_MissingDomainExitsEarly ==
  EmailModeWithoutDomain =>
    /\ script.loads = 0 /\ script.imap = 0 /\ script.smtp = 0
    /\ script.pc \in {"setup", "deps", "run", "exited"}
    /\ script.pc = "exited" => script.exit # 0 /\ script.why = "config"

C14_Witness ==
  /\ EmailModeWithoutDomain
  /\ script.pc = "exited" /\ script.exit = 1 /\ script.why = "config"
  /\ script.loads = 0

\* a one-shot run of a health script has ended
OneShotEnded ==
  /\ script.prog \in {"health", "monitor"}
  /\ script.pc = "exited"

\* what the script found: every check ok, respectively no alert
Healthy ==
  IF script.prog = "health" THEN script.failing = {} ELSE script.alerts = {}

\* C16: a one-shot run of the health-check or monitor script, --json
\* included, exits with status 0 exactly when the system is healthy and
\* with status 1 when it is not.
C16_ExitStatusIsHealth ==
  OneShotEnded => script.exit = ExitStatus(Healthy)

\* run.py is started with --mode email (and without --check), every email
\* setting is set and TELEGRAM_BOT_TOKEN is not, the dependencies are installed
EmailModeWithoutToken ==
  /\ script.prog = "run" /\ script.mode = "email" /\ ~script.check
  /\ script.deps
  /\ script.env = EnvNames \ {"TELEGRAM_BOT_TOKEN"}

\* C29: the runner validates only the settings of the selected mode: started
\* with --mode email, every email setting present and TELEGRAM_BOT_TOKEN
\* unset, it does not abort at startup.
C29_EmailModeNeedsNoToken ==
  EmailModeWithoutToken => script.pc # "exited"

(* ---------------------- the mail loop, interrupted --------------------- *)
(* SIGINT reaches the main thread as KeyboardInterrupt (as SystemExit      *)
(* under run.py's signal_handler) at whatever statement it is executing.   *)
(* Neither is an Exception: the except clauses of process_email and        *)
(* check_new_emails let it through, and the loop ends there.               *)

\* the inbox of the interrupted runs: messages 1 and 2
InterruptInbox == {1, 2}

\* where start_monitoring stands while its loop runs
LoopPcs == {"connect", "search", "fetch", "generate", "sendmail", "quit",
            "store", "logout", "sleep"}

InitInterrupt ==
  /\ Init
  /\ adapter \in MailAdapters
  /\ mailbox \subseteq InterruptInbox

\* an interrupt arrives while the loop runs
Interrupt ==
  /\ adapter \in MailAdapters /\ pc \in LoopPcs
  /\ interrupted_at' = pc
  /\ pc' = "interrupted"
  /\ UNCHANGED << adapter, model, tokenizer, is_loading, gen_raised,
                  load_runs, bad_load, is_running, mailbox, unseen,
                  processed_emails, email_ids, idx, ai_response, sleep_for,
                  cycle, cycle_state, outcome, delivered, sent_true, stored,
                  handlers, call, script >>

InterruptNext == MailNext \/ Interrupt

SpecInterrupt == InitInterrupt /\ [][InterruptNext]_vars

\* C15: an interrupt never ends the loop in the middle of an email: not
\* while its answer is generated, and not between the send and the commit
\* of its fingerprint.
C15_InterruptCompletesEmail ==
  interrupted_at \notin {"generate", "sendmail", "quit"}

\* the step that ends a sleep starts the next cycle, unless it is an interrupt
AfterSleepNextCycle ==
  (pc = "sleep" /\ pc' # pc) =>
    (pc' = "interrupted" \/ (pc' = "connect" /\ cycle' = cycle + 1))

\* no step leaves the loop but an interrupt
LoopLeftByInterruptOnly ==
  (pc \in LoopPcs /\ pc' \notin LoopPcs) => pc' = "interrupted"

\* C18: without an interrupt the monitoring loop never ends: the while
\* condition never fails, every sleep is the configured interval whatever
\* the cycle did, the step after a sleep starts a further cycle, and the
\* loop is left through an interrupt only.
C18_LoopNeverTerminates ==
  /\ [](pc # "returned")
  /\ [](pc = "sleep" => sleep_for = check_interval)
  /\ [][AfterSleepNextCycle]_vars
  /\ [][LoopLeftByInterruptOnly]_vars

C18_Witness ==
  /\ pc = "sleep" /\ cycle = 2 /\ cycle_state = "search_error"
  /\ interrupted_at = "none"
  /\ \E id \in mailbox : delivered[id] >= 1

(* --------------------- start() of the three mail bots ------------------ *)
(* email_bot.py (the generic variant) next to the two polling variants:     *)
(* one behaviour is one call of main(), with unread messages in the inbox.  *)

StartVariants == MailAdapters \cup {"generic"}

InitStart ==
  /\ adapter \in StartVariants
  /\ pc = "start"
  /\ model = "None" /\ tokenizer = "None"
  /\ is_loading = FALSE /\ is_running = FALSE
  /\ mailbox \in (SUBSET InterruptInbox) \ {{}}
  /\ unseen = mailbox
  /\ processed_emails = {}
  /\ email_ids = <<>> /\ idx = 0
  /\ ai_response = "none"
  /\ sleep_for = 0
  /\ cycle = 0 /\ cycle_state = "none"
  /\ outcome = [id \in mailbox |-> "none"]
  /\ delivered = [id \in mailbox |-> 0]
  /\ sent_true = {} /\ stored = {}
  /\ gen_raised = FALSE
  /\ handlers = [u \in Updates |-> IdleHandler]
  /\ load_runs = 0 /\ bad_load = FALSE
  /\ interrupted_at = "none"
  /\ call = NoCall /\ script = NoScript

\* EmailBot.start: load_model, the "ready" log line, and the return
GenericStart ==
  /\ adapter = "generic" /\ pc = "start"
  /\ \E out \in LoadOutcomes(adapter) :
       LET r == load_model(adapter, model, tokenizer, out, FALSE) IN
       /\ model' = r.model /\ tokenizer' = r.tokenizer
       /\ is_loading' = FALSE
       /\ load_runs' = load_runs + (IF r.started THEN 1 ELSE 0)
       /\ bad_load' = (bad_load \/ (r.started /\ (model # "None" \/ is_loading)))
       /\ pc' = IF r.raised THEN "crashed" ELSE "returned"
  /\ UNCHANGED << adapter, gen_raised, is_running, mailbox, unseen,
                  processed_emails, email_ids, idx, ai_response, sleep_for,
                  cycle, cycle_state, outcome, delivered, sent_true, stored,
                  handlers, auxVars >>

StartNext == MailNext \/ GenericStart

SpecStart == InitStart /\ [][StartNext]_vars

\* C23: a mail bot whose model is loaded enters the poll loop: start() does
\* not return with the model loaded before a poll cycle was started.
C23_EntersPollLoop ==
  ~(model # "None" /\ pc = "returned" /\ cycle = 0)

(* ------------------- further properties of the loops ------------------- *)

\* a poll cycle failed on a transport error and the loop sleeps
FailedCycleSleeps ==
  pc = "sleep" /\ cycle_state \in {"connect_error", "search_error"}

\* C17: a failed model load is never retried: load_model starts its load
\* sequence at most once in a process.
C17_LoadNeverRetried == load_runs <= 1

\* C19 as stated: the sleep that follows a poll cycle failed on a transport
\* error is the 60-second backoff.
C19_BackoffAfterTransportError ==
  FailedCycleSleeps => sleep_for = ErrorBackoff

\* C19, amended: check_new_emails catches the transport error, so the sleep
\* that follows the failed cycle is the normal check interval; the loop
\* never sleeps the 60-second backoff.
C19_NormalIntervalAfterTransportError ==
  /\ FailedCycleSleeps => sleep_for = check_interval
  /\ sleep_for # ErrorBackoff

C19_Witness ==
  /\ FailedCycleSleeps /\ cycle_state = "search_error"
  /\ sleep_for = check_interval /\ cycle = 1

\* C20: the text handler calls generate_response only with the model set:
\* a handler that saw is_loading, or whose load raised, never generates; a
\* handler is past the load only with the model set; it generates once and
\* has the result to send.
C20_GenerateOnlyWithModel ==
  \A u \in Updates :
    LET h == handlers[u] IN
    /\ h.pc \in {"A_typing", "A_reply", "A_apology"} => model # "None"
    /\ h.generated => model # "None" /\ ~h.waited /\ h.kind = "text"
    /\ h.pc \in {"A_wait", "A_notice", "A_loaderr", "A_loaded", "A_typing"}
         => ~h.generated
    /\ h.generated = (h.reply # "none")

C20_Witness ==
  \E u \in Updates :
    /\ handlers[u].loaded /\ handlers[u].generated
    /\ handlers[u].reply = "answer" /\ handlers[u].pc = "done"

(* ------------------------- skipped and failed mail --------------------- *)

\* the reasons for which process_email returns early
SkipReasons == {"notok", "duplicate", "short", "autoreply"}

\* the step in which process_email returns early for the current message
SkipStep ==
  /\ adapter \in MailAdapters /\ pc = "fetch"
  /\ idx' = idx + 1
  /\ outcome'[cur] \in SkipReasons

\* a step that commits no fingerprint, sends nothing and stores no flag
SkipChangesNothing ==
  SkipStep =>
    /\ processed_emails' = processed_emails
    /\ delivered' = delivered /\ sent_true' = sent_true
    /\ stored' = stored
    /\ ai_response' = "none" /\ pc' \in {"fetch", "logout"}

\* C24: a skipped email changes nothing: the step in which process_email
\* returns early leaves processed_emails as it is, calls neither
\* generate_response nor send_email and stores no flag on the message; and
\* a message that meets one of the skip conditions is never being answered.
C24_SkippedEmailChangesNothing ==
  /\ [][SkipChangesNothing]_vars
  /\ [](Answering =>
          /\ Fingerprint(adapter, cur) \notin processed_emails
          /\ ~BodySkipped(adapter, ExtractBody(adapter, Messages[cur]))
          /\ ~IsAutoReply(adapter, DecodedSubject(adapter, Messages[cur])))

C24_Witness ==
  /\ pc = "sleep" /\ cycle = 2 /\ cycle_state = "listed"
  /\ \E i, j \in mailbox :
       /\ outcome[i] = "duplicate" /\ delivered[i] = 1 /\ i \notin stored
       /\ outcome[j] \in {"short", "autoreply"} /\ delivered[j] = 0
       /\ j \notin sent_true

\* the strings generate_response returns when it could not generate
FailureStrings == {"error", "notloaded"}

\* whatever generate_response returns, the failure strings included, the
\* next step of process_email is the send of the formatted string
FailureIsSent ==
  (adapter \in MailAdapters /\ pc = "generate" /\ pc' # pc) =>
    /\ pc' = "sendmail"
    /\ ai_response' \in {"answer", "fallback"} \cup FailureStrings

\* send_email returns True for a failure string: the fingerprint is committed
FailureIsCommitted ==
  (adapter \in MailAdapters /\ pc = "quit" /\ ai_response \in FailureStrings
     /\ outcome'[cur] = "replied") =>
    HashOf[adapter][cur] \in processed_emails'

\* C25: a generation failure is not retryable: the string generate_response
\* returns for it is sent as the reply, a successful send commits the
\* fingerprint, and no generation starts for a committed fingerprint.
C25_GenerationFailureNotRetryable ==
  /\ [][FailureIsSent]_vars
  /\ [][FailureIsCommitted]_vars
  /\ [](pc = "generate" => HashOf[adapter][cur] \notin processed_emails)

C25_Witness ==
  /\ adapter = "protonmail" /\ pc = "store"
  /\ ai_response = "error"
  /\ HashOf[adapter][cur] \in processed_emails
  /\ delivered[cur] = 1 /\ cycle = 1

\* check_new_emails holds an IMAP session on which logout was not yet called
SessionOpen ==
  /\ adapter \in MailAdapters
  /\ pc \in {"search", "fetch", "generate", "sendmail", "quit", "store"}

\* check_new_emails does not return while the session is open
LogoutBeforeReturn == SessionOpen => pc' # "sleep"

\* C26: every IMAP session opened in a poll cycle is logged out before the
\* cycle ends: check_new_emails never returns with a session on which
\* logout was not called.
C26_SessionLoggedOut == [][LogoutBeforeReturn]_vars

(* --------------------------- the loaded model -------------------------- *)

\* C27: whenever load_model has returned without raising, the model handle
\* and the tokenizer are both set, and generate_response never returns the
\* model-not-loaded string afterwards.
C27_LoadSetsModelAndTokenizer ==
  /\ model # "None" => tokenizer # "None"
  /\ \A u \in Updates :
       /\ handlers[u].pc \in {"A_loaded", "B_ready"} =>
            model # "None" /\ tokenizer # "None"
       /\ handlers[u].reply # "notloaded"
  /\ ai_response # "notloaded"

(* ------------------------------- stop() -------------------------------- *)
(* MailserverEmailBot.stop clears is_running; nothing in the repository    *)
(* calls it, so it is a call from another thread, at any time after the    *)
(* construction of the bot.  The steps of the loop are taken to end: weak  *)
(* fairness on the mail loop.                                              *)

\* stop() is called, once
Stop ==
  /\ adapter = "mailserver" /\ pc \in {"start"} \cup LoopPcs
  /\ call = NoCall
  /\ is_running' = FALSE
  /\ call' = [fn |-> "stop", at |-> pc]
  /\ UNCHANGED << adapter, pc, model, tokenizer, is_loading, gen_raised,
                  load_runs, bad_load, mailbox, unseen, processed_emails,
                  email_ids, idx, ai_response, sleep_for, cycle, cycle_state,
                  outcome, delivered, sent_true, stored, handlers,
                  interrupted_at, script >>

StopNext == MailNext \/ Stop

\* the inbox of the stopped runs: message 2
StopInbox == {2}

InitStop == InitInterrupt /\ mailbox \subseteq StopInbox

SpecStop == InitStop /\ [][StopNext]_vars /\ WF_vars(MailNext)

\* stop() has been called / was called while start_monitoring was running
Stopped == call.fn = "stop"
StoppedInLoop == call.fn = "stop" /\ call.at \in LoopPcs

\* a poll cycle starts only with is_running true
CycleOnlyWhileRunning ==
  (adapter = "mailserver" /\ cycle' = cycle + 1) => is_running'

\* no poll cycle starts once stop() was called
NoCycleAfterStop == (Stopped /\ Stopped') => cycle' = cycle
NoCycleAfterStopInLoop == (StoppedInLoop /\ StoppedInLoop') => cycle' = cycle

\* C30 as stated: the poll loop runs only while is_running is true; after
\* stop() is called no new poll cycle starts and start_monitoring
\* eventually returns (or was never entered).
C30_StopEndsLoop ==
  /\ [][CycleOnlyWhileRunning]_vars
  /\ [][NoCycleAfterStop]_vars
  /\ Stopped ~> (pc \in {"returned", "crashed"})

\* C30, amended: when stop() is called while start_monitoring is running,
\* no new poll cycle starts beyond the one in progress and start_monitoring
\* eventually returns; a stop() called before start() has set is_running is
\* overwritten by start().
C30_StopInLoopEndsLoop ==
  /\ [][CycleOnlyWhileRunning]_vars
  /\ [][NoCycleAfterStopInLoop]_vars
  /\ StoppedInLoop ~> (pc = "returned")

C30_Witness ==
  /\ pc = "returned" /\ call.fn = "stop" /\ call.at = "generate"
  /\ cycle = 1
  /\ \E id \in mailbox : delivered[id] = 1

====
